---- MODULE Spec2Model ----
(***************************************************************************)
(* Model of producer_consumer/main.go: the pizzeria producer goroutine,    *)
(* the consumer loop of main, the unbuffered data and quit channels, the   *)
(* acknowledgment channel of Producer.Close, the WaitGroup, the ingredient *)
(* ledger and the three package-level counters.                            *)
(***************************************************************************)
EXTENDS Integers, Sequences, FiniteSets, TLC

\* ------------------------------------------------------------------------
\* Program constants (main.go)
\* ------------------------------------------------------------------------
NumberOfPizzas == 10

ShippedStock ==
  [r \in {"Tomato sauce", "Mozzarella", "Bacon", "Eggs", "Onions",
          "Chili peppers", "Anchovies", "Olive oil"} |->
     CASE r = "Tomato sauce"  -> 10
       [] r = "Mozzarella"    -> 10
       [] r = "Bacon"         -> 10
       [] r = "Eggs"          -> 9
       [] r = "Onions"        -> 8
       [] r = "Chili peppers" -> 8
       [] r = "Anchovies"     -> 5
       [] r = "Olive oil"     -> 3]

Ingredient(n, q) == [Name |-> n, Quantity |-> q]

ShippedPizzaTypes ==
  << [Name |-> "Mazza",
      Ingredients |-> << Ingredient("Tomato sauce", 1), Ingredient("Mozzarella", 1),
                         Ingredient("Bacon", 1), Ingredient("Eggs", 1),
                         Ingredient("Onions", 1), Ingredient("Chili peppers", 1) >>],
     [Name |-> "Napoletana",
      Ingredients |-> << Ingredient("Tomato sauce", 1), Ingredient("Mozzarella", 1),
                         Ingredient("Anchovies", 1), Ingredient("Olive oil", 1) >>] >>

\* ------------------------------------------------------------------------
\* Bounds of the small configurations (limit, catalog, stock) explored next
\* to the shipped one
\* ------------------------------------------------------------------------
MaxLimit == 3
MaxQty == 2
MaxStock == 2

SmallResources == {"A", "B"}

SmallIngredientLists ==
  UNION { [1..k -> [Name : SmallResources, Quantity : 1..MaxQty]] : k \in 1..Cardinality(SmallResources) }

SmallPizzaTypes == { [Name |-> "P", Ingredients |-> l] : l \in SmallIngredientLists }

\* one type of up to as many ingredients as there are resources (a resource may
\* be named twice), or two types of one unit of one resource each
SmallCatalogs ==
  { <<t>> : t \in SmallPizzaTypes }
  \cup { << [Name |-> "P", Ingredients |-> << Ingredient(a, 1) >>],
           [Name |-> "Q", Ingredients |-> << Ingredient(b, 1) >>] >> :
         a \in SmallResources, b \in SmallResources }

SmallStocks == [SmallResources -> 0..MaxStock]

VARIABLES
  limit,                \* const NumberOfPizzas of the run
  pizzaTypes,           \* the catalog handed to pizzeria
  initialStock,         \* AvailableIngredients at program start
  AvailableIngredients, \* the ledger
  pizzasMade, pizzasFailed, total,
  ingredientMutex,      \* Producer.ingredientMutex: TRUE iff locked
  pcP,                  \* position of the pizzeria goroutine
  i,                    \* pizzeria's local i
  currentPizza,         \* pizzeria's local currentPizza
  quitChan,             \* pizzeria's local quitChan (index into acks, 0 = none)
  pcC,                  \* position of main
  order,                \* the range variable of the consumer loop
  ch,                   \* Close's local ch (index into acks, 0 = none)
  err,                  \* value returned by the last Close
  dataClosed,           \* pizzaJob.data is closed
  acks,                 \* the acknowledgment channels made by Close: "open" / "closed"
  wgCounter,            \* WaitGroup counter
  panicked,             \* the runtime panicked (close of closed channel, send on
                        \* closed channel, negative WaitGroup counter)
  attempts,             \* history: every makePizza invocation
  received,             \* history: every order the consumer received
  classified,           \* history: the orders the consumer reported
  events,               \* history: counts of close(data), close(ack), wg.Done, quit sends
  unguardedAccess       \* history: the ledger was accessed with the mutex not held

cfgVars == <<limit, pizzaTypes, initialStock>>
ledgerVars == <<AvailableIngredients, pizzasMade, pizzasFailed, total>>
prodVars == <<pcP, i, currentPizza, quitChan>>
consVars == <<pcC, order, ch, err>>
chanVars == <<dataClosed, acks, wgCounter>>
histVars == <<attempts, received, classified, events, unguardedAccess>>

vars == <<cfgVars, ledgerVars, ingredientMutex, prodVars, consVars, chanVars,
          panicked, histVars>>

NoOrder == [pizzaNumber |-> 0, message |-> <<>>, success |-> FALSE]

\* ------------------------------------------------------------------------
\* makePizza and decrementIngredient
\* ------------------------------------------------------------------------
\* mutant: decrements by one whatever the required quantity
decrementIngredient_ByOne(ledger, ingredientName, quantity) ==
  [ledger EXCEPT ![ingredientName] = @ - 1]

decrementIngredient(ledger, ingredientName, quantity) ==
  [ledger EXCEPT ![ingredientName] = @ - quantity]

RECURSIVE decrementAll(_, _, _)
decrementAll(ledger, ingredients, k) ==
  IF k > Len(ingredients) THEN ledger
  ELSE decrementAll(decrementIngredient(ledger, ingredients[k].Name,
                                        ingredients[k].Quantity),
                    ingredients, k + 1)

\* mutant: `<=` in place of `<` in the sufficiency test
RECURSIVE firstShort_OffByOne(_, _, _)
firstShort_OffByOne(ledger, ingredients, k) ==
  IF k > Len(ingredients) THEN 0
  ELSE IF ledger[ingredients[k].Name] <= ingredients[k].Quantity THEN k
  ELSE firstShort_OffByOne(ledger, ingredients, k + 1)

\* mutant: the check loop looks at the first ingredient only
firstShort_OnlyFirst(ledger, ingredients, k) ==
  IF k > Len(ingredients) THEN 0
  ELSE IF ledger[ingredients[k].Name] < ingredients[k].Quantity THEN k
  ELSE 0

\* mutant: the check loop does not return at the first short ingredient, so the
\* last short one is reported
RECURSIVE firstShort_Last(_, _, _)
firstShort_Last(ledger, ingredients, k) ==
  IF k > Len(ingredients) THEN 0
  ELSE LET later == firstShort_Last(ledger, ingredients, k + 1) IN
       IF later # 0 THEN later
       ELSE IF ledger[ingredients[k].Name] < ingredients[k].Quantity THEN k
       ELSE 0

\* index of the first ingredient the range loop finds short, 0 if none
RECURSIVE firstShort(_, _, _)
firstShort(ledger, ingredients, k) ==
  IF k > Len(ingredients) THEN 0
  ELSE IF ledger[ingredients[k].Name] < ingredients[k].Quantity THEN k
  ELSE firstShort(ledger, ingredients, k + 1)

\* mutant: a failed attempt does not count in pizzasFailed
makePizza_NoFailCount(pizzaNumber, pizzaType) ==
  LET n == pizzaNumber + 1
      pizzaIngredients == pizzaType.Ingredients
      short == firstShort(AvailableIngredients, pizzaIngredients, 1)
  IN
  IF n <= limit THEN
    IF short # 0 THEN
      [p |-> [pizzaNumber |-> n,
              message |-> <<"We ran out of", pizzaIngredients[short].Name, n>>,
              success |-> FALSE],
       ledger |-> AvailableIngredients,
       made |-> pizzasMade, failed |-> pizzasFailed, total |-> total + 1,
       touched |-> TRUE]
    ELSE
      [p |-> [pizzaNumber |-> n,
              message |-> <<"Pizza order is ready", n>>,
              success |-> TRUE],
       ledger |-> decrementAll(AvailableIngredients, pizzaIngredients, 1),
       made |-> pizzasMade + 1, failed |-> pizzasFailed, total |-> total + 1,
       touched |-> Len(pizzaIngredients) > 0]
  ELSE
    [p |-> [pizzaNumber |-> n, message |-> <<>>, success |-> FALSE],
     ledger |-> AvailableIngredients,
     made |-> pizzasMade, failed |-> pizzasFailed, total |-> total,
     touched |-> FALSE]

\* mutant: total++ moved out of the `if pizzaNumber <= NumberOfPizzas`
makePizza_CountsAll(pizzaNumber, pizzaType) ==
  LET n == pizzaNumber + 1
      pizzaIngredients == pizzaType.Ingredients
      short == firstShort(AvailableIngredients, pizzaIngredients, 1)
  IN
  IF n <= limit THEN
    IF short # 0 THEN
      [p |-> [pizzaNumber |-> n,
              message |-> <<"We ran out of", pizzaIngredients[short].Name, n>>,
              success |-> FALSE],
       ledger |-> AvailableIngredients,
       made |-> pizzasMade, failed |-> pizzasFailed + 1, total |-> total + 1,
       touched |-> TRUE]
    ELSE
      [p |-> [pizzaNumber |-> n,
              message |-> <<"Pizza order is ready", n>>,
              success |-> TRUE],
       ledger |-> decrementAll(AvailableIngredients, pizzaIngredients, 1),
       made |-> pizzasMade + 1, failed |-> pizzasFailed, total |-> total + 1,
       touched |-> Len(pizzaIngredients) > 0]
  ELSE
    [p |-> [pizzaNumber |-> n, message |-> <<>>, success |-> FALSE],
     ledger |-> AvailableIngredients,
     made |-> pizzasMade, failed |-> pizzasFailed, total |-> total + 1,
     touched |-> FALSE]

makePizza(pizzaNumber, pizzaType) ==
  LET n == pizzaNumber + 1
      pizzaIngredients == pizzaType.Ingredients
      short == firstShort(AvailableIngredients, pizzaIngredients, 1)
  IN
  IF n <= limit THEN
    IF short # 0 THEN
      [p |-> [pizzaNumber |-> n,
              message |-> <<"We ran out of", pizzaIngredients[short].Name, n>>,
              success |-> FALSE],
       ledger |-> AvailableIngredients,
       made |-> pizzasMade, failed |-> pizzasFailed + 1, total |-> total + 1,
       touched |-> TRUE]
    ELSE
      [p |-> [pizzaNumber |-> n,
              message |-> <<"Pizza order is ready", n>>,
              success |-> TRUE],
       ledger |-> decrementAll(AvailableIngredients, pizzaIngredients, 1),
       made |-> pizzasMade + 1, failed |-> pizzasFailed, total |-> total + 1,
       touched |-> Len(pizzaIngredients) > 0]
  ELSE
    [p |-> [pizzaNumber |-> n, message |-> <<>>, success |-> FALSE],
     ledger |-> AvailableIngredients,
     made |-> pizzasMade, failed |-> pizzasFailed, total |-> total,
     touched |-> FALSE]

\* ------------------------------------------------------------------------
\* Initial states: after `go pizzeria(pizzaJob, pizzaTypes)`
\* ------------------------------------------------------------------------
Configs ==
  { [limit |-> NumberOfPizzas, types |-> ShippedPizzaTypes, stock |-> ShippedStock] }
  \cup
  [limit : 1..MaxLimit, types : SmallCatalogs, stock : SmallStocks]

Init ==
  /\ \E c \in Configs :
       /\ limit = c.limit
       /\ pizzaTypes = c.types
       /\ initialStock = c.stock
       /\ AvailableIngredients = c.stock
  /\ pizzasMade = 0 /\ pizzasFailed = 0 /\ total = 0
  /\ ingredientMutex = FALSE
  /\ pcP = "loop" /\ i = 0 /\ currentPizza = NoOrder /\ quitChan = 0
  /\ pcC = "range" /\ order = NoOrder /\ ch = 0 /\ err = "unset"
  /\ dataClosed = FALSE /\ acks = <<>> /\ wgCounter = 1
  /\ panicked = FALSE
  /\ attempts = <<>> /\ received = <<>> /\ classified = <<>>
  /\ events = [closeData |-> 0, closeAck |-> 0, done |-> 0, quitSent |-> 0]
  /\ unguardedAccess = FALSE

\* ------------------------------------------------------------------------
\* pizzeria
\* ------------------------------------------------------------------------
\* mutant: `i = currentPizza.pizzaNumber` is missing
P_makePizza_StaleIndex ==
  /\ ~panicked /\ pcP = "loop"
  /\ \E pizzaTypeIndex \in 1..Len(pizzaTypes) :
       LET r == makePizza(i, pizzaTypes[pizzaTypeIndex]) IN
       /\ AvailableIngredients' = r.ledger
       /\ pizzasMade' = r.made
       /\ pizzasFailed' = r.failed
       /\ total' = r.total
       /\ currentPizza' = r.p
       /\ i' = i
       /\ attempts' = Append(attempts, [n |-> r.p.pizzaNumber, type |-> pizzaTypeIndex,
                                        success |-> r.p.success])
       /\ unguardedAccess' = (unguardedAccess \/ (r.touched /\ ~ingredientMutex))
  /\ pcP' = "select"
  /\ UNCHANGED <<cfgVars, ingredientMutex, quitChan, consVars, chanVars, panicked,
                 received, classified, events>>

\* mutant: the loop leaves on its own once the number passes the limit
P_makePizza_StopsAtLimit ==
  /\ ~panicked /\ pcP = "loop"
  /\ \E pizzaTypeIndex \in 1..Len(pizzaTypes) :
       LET r == makePizza(i, pizzaTypes[pizzaTypeIndex]) IN
       /\ AvailableIngredients' = r.ledger
       /\ pizzasMade' = r.made
       /\ pizzasFailed' = r.failed
       /\ total' = r.total
       /\ currentPizza' = r.p
       /\ i' = r.p.pizzaNumber
       /\ attempts' = Append(attempts, [n |-> r.p.pizzaNumber, type |-> pizzaTypeIndex,
                                        success |-> r.p.success])
       /\ unguardedAccess' = (unguardedAccess \/ (r.touched /\ ~ingredientMutex))
       /\ pcP' = IF r.p.pizzaNumber > limit THEN "closeData" ELSE "select"
  /\ UNCHANGED <<cfgVars, ingredientMutex, quitChan, consVars, chanVars, panicked,
                 received, classified, events>>

\* one loop iteration up to the select: pick a type, call makePizza, i = number
P_makePizza ==
  /\ ~panicked /\ pcP = "loop"
  /\ \E pizzaTypeIndex \in 1..Len(pizzaTypes) :
       LET r == makePizza(i, pizzaTypes[pizzaTypeIndex]) IN
       /\ AvailableIngredients' = r.ledger
       /\ pizzasMade' = r.made
       /\ pizzasFailed' = r.failed
       /\ total' = r.total
       /\ currentPizza' = r.p
       /\ i' = r.p.pizzaNumber
       /\ attempts' = Append(attempts, [n |-> r.p.pizzaNumber, type |-> pizzaTypeIndex,
                                        success |-> r.p.success])
       /\ unguardedAccess' = (unguardedAccess \/ (r.touched /\ ~ingredientMutex))
  /\ pcP' = "select"
  /\ UNCHANGED <<cfgVars, ingredientMutex, quitChan, consVars, chanVars, panicked,
                 received, classified, events>>

\* mutant: the select has a `default:` case, so an offer nobody takes is dropped
Deliver_WithDefault ==
  /\ ~panicked /\ pcP = "select"
  /\ IF dataClosed
       THEN /\ panicked' = TRUE
            /\ UNCHANGED <<pcP, pcC, order, received>>
       ELSE \/ /\ pcC = "range"
               /\ order' = currentPizza
               /\ received' = Append(received, currentPizza)
               /\ pcP' = "loop" /\ pcC' = "body"
               /\ UNCHANGED panicked
            \/ /\ pcC # "range"
               /\ pcP' = "loop"
               /\ UNCHANGED <<pcC, order, received, panicked>>
  /\ UNCHANGED <<cfgVars, ledgerVars, ingredientMutex, i, currentPizza, quitChan,
                 ch, err, chanVars, attempts, classified, events, unguardedAccess>>

\* select case `pizzaMaker.data <- *currentPizza`: on an open channel it meets the
\* consumer's receive; on a closed channel the send is ready at once and panics
Deliver ==
  /\ ~panicked /\ pcP = "select"
  /\ IF dataClosed
       THEN /\ panicked' = TRUE
            /\ UNCHANGED <<pcP, pcC, order, received>>
       ELSE /\ pcC = "range"
            /\ order' = currentPizza
            /\ received' = Append(received, currentPizza)
            /\ pcP' = "loop" /\ pcC' = "body"
            /\ UNCHANGED panicked
  /\ UNCHANGED <<cfgVars, ledgerVars, ingredientMutex, i, currentPizza, quitChan,
                 ch, err, chanVars, attempts, classified, events, unguardedAccess>>

\* mutant: the quit case acknowledges the request but neither closes data nor
\* returns
Quit_KeepsRunning ==
  /\ ~panicked /\ pcP = "select" /\ pcC = "closeSend"
  /\ quitChan' = ch
  /\ acks' = [acks EXCEPT ![ch] = "closed"]
  /\ events' = [events EXCEPT !.quitSent = @ + 1, !.closeAck = @ + 1]
  /\ pcP' = "loop" /\ pcC' = "closeRecv"
  /\ UNCHANGED <<cfgVars, ledgerVars, ingredientMutex, i, currentPizza, order, ch,
                 err, dataClosed, wgCounter, panicked, attempts, received,
                 classified, unguardedAccess>>

\* select case `quitChan := <-pizzaMaker.quit` meeting Close's `p.quit <- ch`
Quit ==
  /\ ~panicked /\ pcP = "select" /\ pcC = "closeSend"
  /\ quitChan' = ch
  /\ events' = [events EXCEPT !.quitSent = @ + 1]
  /\ pcP' = "closeData" /\ pcC' = "closeRecv"
  /\ UNCHANGED <<cfgVars, ledgerVars, ingredientMutex, i, currentPizza, order, ch,
                 err, chanVars, panicked, attempts, received, classified,
                 unguardedAccess>>

\* mutant: close(pizzaMaker.data) is missing
P_closeData_Skipped ==
  /\ ~panicked /\ pcP = "closeData"
  /\ pcP' = "closeAck"
  /\ UNCHANGED <<cfgVars, ledgerVars, ingredientMutex, i, currentPizza, quitChan,
                 consVars, chanVars, panicked, histVars>>

P_closeData ==
  /\ ~panicked /\ pcP = "closeData"
  /\ IF dataClosed
       THEN panicked' = TRUE /\ UNCHANGED <<dataClosed, pcP>>
       ELSE dataClosed' = TRUE /\ pcP' = "closeAck" /\ UNCHANGED panicked
  /\ events' = [events EXCEPT !.closeData = @ + 1]
  /\ UNCHANGED <<cfgVars, ledgerVars, ingredientMutex, i, currentPizza, quitChan,
                 consVars, acks, wgCounter, attempts, received, classified,
                 unguardedAccess>>

\* mutant: close(quitChan) is missing
P_closeAck_NoClose ==
  /\ ~panicked /\ pcP = "closeAck"
  /\ pcP' = "wgDone"
  /\ UNCHANGED <<cfgVars, ledgerVars, ingredientMutex, i, currentPizza, quitChan,
                 consVars, chanVars, panicked, histVars>>

P_closeAck ==
  /\ ~panicked /\ pcP = "closeAck"
  /\ IF acks[quitChan] = "closed"
       THEN panicked' = TRUE /\ UNCHANGED <<acks, pcP>>
       ELSE acks' = [acks EXCEPT ![quitChan] = "closed"] /\ pcP' = "wgDone"
            /\ UNCHANGED panicked
  /\ events' = [events EXCEPT !.closeAck = @ + 1]
  /\ UNCHANGED <<cfgVars, ledgerVars, ingredientMutex, i, currentPizza, quitChan,
                 consVars, dataClosed, wgCounter, attempts, received, classified,
                 unguardedAccess>>

\* mutant: the `return` after wg.Done() is missing
P_wgDone_NoReturn ==
  /\ ~panicked /\ pcP = "wgDone"
  /\ wgCounter' = wgCounter - 1
  /\ panicked' = (wgCounter - 1 < 0)
  /\ events' = [events EXCEPT !.done = @ + 1]
  /\ pcP' = "loop"
  /\ UNCHANGED <<cfgVars, ledgerVars, ingredientMutex, i, currentPizza, quitChan,
                 consVars, dataClosed, acks, attempts, received, classified,
                 unguardedAccess>>

P_wgDone ==
  /\ ~panicked /\ pcP = "wgDone"
  /\ wgCounter' = wgCounter - 1
  /\ panicked' = (wgCounter - 1 < 0)
  /\ events' = [events EXCEPT !.done = @ + 1]
  /\ pcP' = "returned"
  /\ UNCHANGED <<cfgVars, ledgerVars, ingredientMutex, i, currentPizza, quitChan,
                 consVars, dataClosed, acks, attempts, received, classified,
                 unguardedAccess>>

\* ------------------------------------------------------------------------
\* main: the consumer loop, Close, the join and the report
\* ------------------------------------------------------------------------
\* mutant: `<` in place of `<=` in the consumer's limit test
C_body_OffByOne ==
  /\ ~panicked /\ pcC = "body"
  /\ IF order.pizzaNumber < limit
       THEN /\ classified' = Append(classified,
                                    [n |-> order.pizzaNumber, success |-> order.success])
            /\ pcC' = "range"
            /\ UNCHANGED <<acks, ch>>
       ELSE \* pizzaJob.Close(): ch := make(chan error)
            /\ acks' = Append(acks, "open")
            /\ ch' = Len(acks) + 1
            /\ pcC' = "closeSend"
            /\ UNCHANGED classified
  /\ UNCHANGED <<cfgVars, ledgerVars, ingredientMutex, prodVars, order, err,
                 dataClosed, wgCounter, panicked, attempts, received, events,
                 unguardedAccess>>

\* the body of `for i := range pizzaJob.data` up to its first blocking point
C_body ==
  /\ ~panicked /\ pcC = "body"
  /\ IF order.pizzaNumber <= limit
       THEN /\ classified' = Append(classified,
                                    [n |-> order.pizzaNumber, success |-> order.success])
            /\ pcC' = "range"
            /\ UNCHANGED <<acks, ch>>
       ELSE \* pizzaJob.Close(): ch := make(chan error)
            /\ acks' = Append(acks, "open")
            /\ ch' = Len(acks) + 1
            /\ pcC' = "closeSend"
            /\ UNCHANGED classified
  /\ UNCHANGED <<cfgVars, ledgerVars, ingredientMutex, prodVars, order, err,
                 dataClosed, wgCounter, panicked, attempts, received, events,
                 unguardedAccess>>

\* Close's `return <-ch`: nothing is ever sent on ch, so the receive completes
\* only once ch is closed and then yields the zero value, nil
C_closeRecv ==
  /\ ~panicked /\ pcC = "closeRecv"
  /\ acks[ch] = "closed"
  /\ err' = "nil"
  /\ pcC' = "range"
  /\ UNCHANGED <<cfgVars, ledgerVars, ingredientMutex, prodVars, order, ch,
                 chanVars, panicked, histVars>>

\* the range loop sees the data channel closed and exits
C_rangeExit ==
  /\ ~panicked /\ pcC = "range" /\ dataClosed
  /\ pcC' = "wait"
  /\ UNCHANGED <<cfgVars, ledgerVars, ingredientMutex, prodVars, order, ch, err,
                 chanVars, panicked, histVars>>

\* mutant: main does not wait for the WaitGroup
C_wait_NoJoin ==
  /\ ~panicked /\ pcC = "wait"
  /\ pcC' = "report"
  /\ UNCHANGED <<cfgVars, ledgerVars, ingredientMutex, prodVars, order, ch, err,
                 chanVars, panicked, histVars>>

\* pizzaJob.wg.Wait()
C_wait ==
  /\ ~panicked /\ pcC = "wait"
  /\ wgCounter = 0
  /\ pcC' = "report"
  /\ UNCHANGED <<cfgVars, ledgerVars, ingredientMutex, prodVars, order, ch, err,
                 chanVars, panicked, histVars>>

\* the final message reads pizzasMade, pizzasFailed and total
C_report ==
  /\ ~panicked /\ pcC = "report"
  /\ pcC' = "end"
  /\ UNCHANGED <<cfgVars, ledgerVars, ingredientMutex, prodVars, order, ch, err,
                 chanVars, panicked, histVars>>

Producer == P_makePizza \/ Deliver \/ Quit \/ P_closeData
            \/ P_closeAck \/ P_wgDone

Consumer == Deliver \/ Quit \/ C_body \/ C_closeRecv \/ C_rangeExit \/ C_wait
            \/ C_report

Next == Producer \/ Consumer

Spec == Init /\ [][Next]_vars

\* the Go scheduler runs every goroutine that can take a step
FairSpec == Spec /\ WF_vars(Producer) /\ WF_vars(Consumer)

\* ------------------------------------------------------------------------
\* Auxiliary operators of the properties
\* ------------------------------------------------------------------------
ProducerStopping == pcP \in {"closeData", "closeAck", "wgDone", "returned"}

\* required quantity of resource r in one pizza type
RECURSIVE requiredFrom(_, _, _)
requiredFrom(ingredients, r, k) ==
  IF k > Len(ingredients) THEN 0
  ELSE (IF ingredients[k].Name = r THEN ingredients[k].Quantity ELSE 0)
       + requiredFrom(ingredients, r, k + 1)

\* quantity of r required by the successful attempts among attempts[k..]
RECURSIVE usedFrom(_, _)
usedFrom(r, k) ==
  IF k > Len(attempts) THEN 0
  ELSE (IF attempts[k].success
          THEN requiredFrom(pizzaTypes[attempts[k].type].Ingredients, r, 1)
          ELSE 0)
       + usedFrom(r, k + 1)

NamesOnce ==
  \A t \in 1..Len(pizzaTypes) :
    \A a, b \in 1..Len(pizzaTypes[t].Ingredients) :
      a # b => pizzaTypes[t].Ingredients[a].Name # pizzaTypes[t].Ingredients[b].Name

OverLimit == { k \in 1..Len(received) : received[k].pizzaNumber > limit }

Gaps == { k \in 1..(Len(received) - 1) :
            received[k + 1].pizzaNumber # received[k].pizzaNumber + 1 }

\* ------------------------------------------------------------------------
\* C1: under weak fairness of the producer and of the consumer, every
\* execution reaches the state where pizzeria has returned after wg.Done,
\* the range loop over data has exited and wg.Wait has returned; no
\* goroutine stays blocked forever on data, quit or the acknowledgment.
\* ------------------------------------------------------------------------
C1_Terminates == <>(pcP = "returned" /\ wgCounter = 0 /\ pcC \in {"report", "end"})

C1_Witness == pcP = "returned" /\ wgCounter = 0 /\ pcC = "end" /\ dataClosed

\* ------------------------------------------------------------------------
\* C2: pizzasMade, pizzasFailed and total change only in the producer's
\* makePizza step, and main is at (or past) its read of the counters only
\* when the producer has executed wg.Done and returned.
\* ------------------------------------------------------------------------
C2_CountersReadAfterJoin ==
  /\ [](pcC \in {"report", "end"} => pcP = "returned")
  /\ [][<<pizzasMade, pizzasFailed, total>>' # <<pizzasMade, pizzasFailed, total>>
          => pcP = "loop" /\ pcP' = "select" /\ pcC' = pcC]_vars

C2_Witness == pcC = "report" /\ total = limit /\ pizzasFailed > 0

\* ------------------------------------------------------------------------
\* C3: the data channel, the acknowledgment channel and wg.Done are each
\* executed at most once, never on an already closed channel, the WaitGroup
\* counter never goes negative, the producer never offers a send on the
\* closed data channel, and a complete execution with one shutdown request
\* has exactly one of each.
\* ------------------------------------------------------------------------
C3_ShutdownExactlyOnce ==
  /\ ~panicked
  /\ events.closeData <= 1 /\ events.closeAck <= 1 /\ events.done <= 1
  /\ wgCounter >= 0
  /\ ~(pcP = "select" /\ dataClosed)
  /\ (pcC = "end" /\ events.quitSent = 1
        => events.closeData = 1 /\ events.closeAck = 1 /\ events.done = 1
           /\ dataClosed /\ acks = <<"closed">>)

C3_Witness == pcC = "end" /\ events.quitSent = 1 /\ events.done = 1

\* ------------------------------------------------------------------------
\* C4: the consumer classifies exactly the results numbered 1..limit, each
\* once and in that order, with the success flag it received; the only
\* result above the limit it receives is numbered limit+1, it is not
\* classified, and it is what calls Close.
\* ------------------------------------------------------------------------
C4_ClassifiesUpToLimit ==
  /\ Len(classified) <= limit
  /\ \A k \in 1..Len(classified) :
       classified[k].n = k /\ classified[k].success = received[k].success
  /\ \A k \in OverLimit : k = limit + 1 /\ received[k].pizzaNumber = limit + 1
  /\ \A k \in 1..Len(classified) : k \notin OverLimit
  /\ Len(acks) = Cardinality(OverLimit)
                 - (IF pcC = "body" /\ order.pizzaNumber > limit THEN 1 ELSE 0)
  /\ (pcC \in {"closeSend", "closeRecv", "wait", "report", "end"}
        => Len(classified) = limit)

C4_Witness ==
  /\ limit = 3 /\ pcC = "closeSend" /\ Len(classified) = 3
  /\ order.pizzaNumber = 4 /\ classified[2].success /\ ~classified[3].success

\* ------------------------------------------------------------------------
\* C5: the numbers the consumer receives are strictly increasing, arrive in
\* the order the producer generated them, and consecutive ones differ by 1
\* except for at most one gap, which is at the shutdown boundary.
\* ------------------------------------------------------------------------
C5_ReceivedInOrder ==
  /\ \A k \in 1..(Len(received) - 1) :
       received[k].pizzaNumber < received[k + 1].pizzaNumber
  /\ \A k \in 1..(Len(attempts) - 1) : attempts[k].n < attempts[k + 1].n
  /\ \A k \in 1..Len(received) :
       \E j \in k..Len(attempts) :
         /\ attempts[j].n = received[k].pizzaNumber
         /\ attempts[j].success = received[k].success
  /\ Cardinality(Gaps) <= 1
  /\ \A k \in Gaps : k + 1 = Len(received) /\ received[k + 1].pizzaNumber > limit

C5_Witness ==
  /\ Len(received) = limit + 1 /\ limit >= 2
  /\ received[1].pizzaNumber = 1 /\ received[limit + 1].pizzaNumber = limit + 1

\* ------------------------------------------------------------------------
\* C6: once the producer has executed wg.Done and returned,
\* pizzasMade + pizzasFailed = total.
\* ------------------------------------------------------------------------
C6_CountersAddUp == pcP = "returned" => pizzasMade + pizzasFailed = total

C6_Witness == pcP = "returned" /\ pizzasMade > 0 /\ pizzasFailed > 0

\* ------------------------------------------------------------------------
\* C7: when every pizza type names each ingredient at most once, every
\* entry of the ledger equals its initial stock minus the quantity required
\* by the successful attempts so far, and is never negative.
\* ------------------------------------------------------------------------
C7_LedgerAccounting ==
  NamesOnce =>
    \A r \in DOMAIN AvailableIngredients :
      /\ AvailableIngredients[r] = initialStock[r] - usedFrom(r, 1)
      /\ AvailableIngredients[r] >= 0

C7_Witness ==
  /\ NamesOnce /\ pizzasMade >= 2 /\ pizzasFailed >= 1
  /\ \E r \in DOMAIN AvailableIngredients :
       AvailableIngredients[r] = 0 /\ initialStock[r] = 2

\* ------------------------------------------------------------------------
\* C8: every access of makePizza / decrementIngredient to the ledger
\* happens while Producer.ingredientMutex is held.
\* ------------------------------------------------------------------------
C8_LedgerUnderMutex == ~unguardedAccess

\* ------------------------------------------------------------------------
\* C9 as stated: every makePizza invocation increments total by one, so
\* after the producer has stopped total = limit + 1.
\* ------------------------------------------------------------------------
C9_TotalUnconditional ==
  /\ total = Len(attempts)
  /\ (pcP = "returned" => total = limit + 1)

\* ------------------------------------------------------------------------
\* C9 as amended: a makePizza invocation increments total by exactly one
\* when its resulting number is at most the limit and leaves it unchanged
\* otherwise, so after the producer has stopped total = limit.
\* ------------------------------------------------------------------------
C9_TotalCountsInRange ==
  /\ total = Cardinality({ k \in 1..Len(attempts) : attempts[k].n <= limit })
  /\ (pcP = "returned" => total = limit /\ Len(attempts) = limit + 2)

C9_Witness == pcP = "returned" /\ Len(attempts) = limit + 2 /\ total = limit

\* ------------------------------------------------------------------------
\* C10: the producer starts closing only after a shutdown request was sent
\* on quit, the request is sent only after the consumer received a result
\* numbered above the limit, and until then the producer stays in its loop
\* (making and offering results) however far i is past the limit.
\* ------------------------------------------------------------------------
C10_StopsOnlyOnRequest ==
  /\ (ProducerStopping \/ dataClosed => events.quitSent >= 1)
  /\ (events.quitSent >= 1 \/ pcC = "closeSend" => OverLimit # {})
  /\ (events.quitSent = 0 => pcP \in {"loop", "select"})

C10_Witness ==
  /\ pcP = "select" /\ currentPizza.pizzaNumber = limit + 2
  /\ events.quitSent = 0 /\ total = limit

\* ------------------------------------------------------------------------
\* C11: at most one result computed by makePizza is not delivered to the
\* consumer; the delivered results are the first ones computed, the producer
\* never starts a new iteration with a result undelivered, and an
\* undelivered result is the one the producer holds in its select.
\* ------------------------------------------------------------------------
C11_AtMostOneUndelivered ==
  /\ Len(attempts) - Len(received) <= 1
  /\ \A k \in 1..Len(received) :
       /\ received[k].pizzaNumber = attempts[k].n
       /\ received[k].success = attempts[k].success
  /\ (pcP = "loop" => Len(attempts) = Len(received))
  /\ (Len(attempts) > Len(received)
        => currentPizza.pizzaNumber = attempts[Len(attempts)].n)

C11_Witness ==
  /\ pcC = "end" /\ pcP = "returned"
  /\ Len(attempts) = Len(received) + 1
  /\ currentPizza.pizzaNumber = limit + 2

\* ------------------------------------------------------------------------
\* C12: with stock {A:1, B:1}, one pizza type requiring [A:1, B:1] and a
\* limit of at least 2, attempt #1 succeeds and leaves {A:0, B:0}; attempt
\* #2 fails with a message naming A and leaves {A:0, B:0}.
\* ------------------------------------------------------------------------
C12_Config ==
  /\ limit >= 2
  /\ Len(pizzaTypes) = 1
  /\ pizzaTypes[1].Ingredients = << Ingredient("A", 1), Ingredient("B", 1) >>
  /\ initialStock = [r \in SmallResources |-> 1]

C12_TwoAttempts ==
  C12_Config =>
    /\ (Len(attempts) >= 1
          => /\ attempts[1].n = 1 /\ attempts[1].success
             /\ AvailableIngredients = [r \in SmallResources |-> 0])
    /\ (Len(attempts) = 1 /\ pcP = "select"
          => currentPizza.pizzaNumber = 1 /\ currentPizza.success)
    /\ (Len(attempts) >= 2 => attempts[2].n = 2 /\ ~attempts[2].success)
    /\ (Len(attempts) = 2 /\ pcP = "select"
          => currentPizza = [pizzaNumber |-> 2,
                             message |-> <<"We ran out of", "A", 2>>,
                             success |-> FALSE])

C12_Witness ==
  /\ C12_Config /\ Len(attempts) = 2 /\ pcP = "select"
  /\ AvailableIngredients = [r \in SmallResources |-> 0]

\* ------------------------------------------------------------------------
\* C13: when every pizza type requires, for at least one ingredient, more
\* than the initial stock, every received result numbered 1..limit has
\* success = false, the ledger never changes, and at program end
\* pizzasMade = 0 and pizzasFailed = limit.
\* ------------------------------------------------------------------------
AllShort ==
  \A t \in 1..Len(pizzaTypes) :
    \E k \in 1..Len(pizzaTypes[t].Ingredients) :
      pizzaTypes[t].Ingredients[k].Quantity
        > initialStock[pizzaTypes[t].Ingredients[k].Name]

C13_AllFail ==
  AllShort =>
    /\ \A k \in 1..Len(received) :
         received[k].pizzaNumber <= limit => ~received[k].success
    /\ AvailableIngredients = initialStock
    /\ (pcC = "end" => pizzasMade = 0 /\ pizzasFailed = limit)

C13_Witness ==
  /\ AllShort /\ pcC = "end" /\ limit >= 2 /\ pizzasFailed = limit
  /\ Len(pizzaTypes[1].Ingredients) = 2
  /\ pizzaTypes[1].Ingredients[1].Quantity
       <= initialStock[pizzaTypes[1].Ingredients[1].Name]

\* ------------------------------------------------------------------------
\* C14: a makePizza invocation that fails in range leaves the ledger
\* unchanged, adds exactly 1 to pizzasFailed and nothing to pizzasMade, and
\* its message names the first ingredient in definition order whose stock is
\* below the required quantity.
\* ------------------------------------------------------------------------
C14_FailureIsClean ==
  [][(/\ pcP = "loop" /\ pcP' = "select"
      /\ currentPizza'.pizzaNumber <= limit /\ ~currentPizza'.success)
     => LET ings == pizzaTypes[attempts'[Len(attempts')].type].Ingredients IN
        /\ AvailableIngredients' = AvailableIngredients
        /\ pizzasFailed' = pizzasFailed + 1
        /\ pizzasMade' = pizzasMade
        /\ \E k \in 1..Len(ings) :
             /\ currentPizza'.message
                  = <<"We ran out of", ings[k].Name, currentPizza'.pizzaNumber>>
             /\ AvailableIngredients[ings[k].Name] < ings[k].Quantity
             /\ \A j \in 1..(k - 1) :
                  AvailableIngredients[ings[j].Name] >= ings[j].Quantity]_vars

C14_Witness ==
  /\ pcP = "select" /\ ~currentPizza.success /\ currentPizza.pizzaNumber <= limit
  /\ Len(pizzaTypes) = 1
  /\ LET ings == pizzaTypes[1].Ingredients IN
     /\ Len(ings) = 2 /\ ings[1].Name # ings[2].Name
     /\ AvailableIngredients[ings[1].Name] < ings[1].Quantity
     /\ ings[2].Quantity - AvailableIngredients[ings[2].Name]
          > ings[1].Quantity - AvailableIngredients[ings[1].Name]
     /\ currentPizza.message[2] = ings[1].Name

\* ------------------------------------------------------------------------
\* C15: the producer closes data, then the acknowledgment channel, then
\* calls wg.Done; whenever Close has returned to the consumer, data is
\* closed and the returned error is nil.
\* ------------------------------------------------------------------------
C15_CloseOrder ==
  /\ events.closeAck <= events.closeData
  /\ events.done <= events.closeAck
  /\ ((\E k \in 1..Len(acks) : acks[k] = "closed") => dataClosed)
  /\ (wgCounter = 0 => quitChan # 0 /\ acks[quitChan] = "closed")
  /\ (err # "unset" => dataClosed /\ err = "nil")

C15_Witness ==
  /\ err = "nil" /\ dataClosed /\ pcC = "wait"
  /\ pcP = "wgDone" /\ wgCounter = 1

\* ------------------------------------------------------------------------
\* C16: once the data channel is closed it stays closed, makePizza is not
\* invoked again, the ledger and the three counters do not change, and the
\* consumer receives no further result.
\* ------------------------------------------------------------------------
C16_StoppedIsTerminal ==
  [][dataClosed
     => /\ dataClosed'
        /\ attempts' = attempts
        /\ ledgerVars' = ledgerVars
        /\ received' = received
        /\ pcP' \in {"closeAck", "wgDone", "returned"}]_vars

C16_Witness ==
  /\ dataClosed /\ pcC = "end" /\ pcP = "returned"
  /\ pizzasMade > 0 /\ Len(received) = limit + 1

\* ------------------------------------------------------------------------
\* C17 as stated: the result of makePizza(n, item) carries the number n the
\* caller passed in, and the caller passes 1 on the first call.
\* ------------------------------------------------------------------------
C17_CallerAssigns ==
  /\ [](attempts = <<>> /\ pcP = "loop" => i = 1)
  /\ [][pcP = "loop" /\ pcP' = "select" => currentPizza'.pizzaNumber = i]_vars

\* ------------------------------------------------------------------------
\* C17 as amended: the result of makePizza(n, item) carries the number
\* n + 1; the caller passes 0 on the first call and afterwards the number of
\* the previous result, so the values passed are strictly increasing and
\* the results are numbered 1, 2, 3, ...
\* ------------------------------------------------------------------------
C17_EngineIncrements ==
  /\ [](attempts = <<>> /\ pcP = "loop" => i = 0)
  /\ [](\A k \in 1..Len(attempts) : attempts[k].n = k)
  /\ [][pcP = "loop" /\ pcP' = "select"
          => currentPizza'.pizzaNumber = i + 1 /\ i' = currentPizza'.pizzaNumber]_vars

C17_Witness == pcP = "loop" /\ i = 2 /\ Len(attempts) = 2 /\ attempts[2].n = 2

C19_QuitAtLimitPlusTwo ==
  /\ (ProducerStopping
        => /\ currentPizza.pizzaNumber = limit + 2
           /\ Len(attempts) = limit + 2
           /\ Len(received) = limit + 1
           /\ \A k \in 1..(limit + 1) : received[k].pizzaNumber = k)
  /\ Len(attempts) <= limit + 2
  /\ (pcC = "end" => Len(classified) = limit /\ Len(attempts) = limit + 2)

C19_Witness ==
  /\ pcP = "closeData" /\ pcC = "closeRecv"
  /\ currentPizza.pizzaNumber = limit + 2 /\ Len(received) = limit + 1

\* ------------------------------------------------------------------------
\* C20: the consumer calls Close exactly once per execution: it receives
\* one result above the limit, at most one request is sent on quit, and it
\* is never blocked sending a request to a producer that has left its loop.
\* ------------------------------------------------------------------------
C20_CloseOnce ==
  /\ Len(acks) <= 1
  /\ Cardinality(OverLimit) <= 1
  /\ events.quitSent <= 1
  /\ ~(pcC = "closeSend" /\ ProducerStopping)
  /\ (pcC = "end" => Len(acks) = 1 /\ Cardinality(OverLimit) = 1
                     /\ events.quitSent = 1)

C20_Witness ==
  /\ pcC = "end" /\ Len(acks) = 1 /\ events.quitSent = 1
  /\ received[Len(received)].pizzaNumber = limit + 1

====
